---- MODULE Spec2Model ----
(***************************************************************************)
(* The file-processing Web Worker of the Duplicate File Finder             *)
(* (src/workers/fileProcessor.ts): the onmessage handler, the chunked      *)
(* hashing loop processFilesWithHashesInChunks, hashFile and               *)
(* findDuplicates, as a state machine whose steps are the event-loop tasks *)
(* of the worker: the delivery of an inbound message, the settling of a    *)
(* pending crypto.subtle.digest promise and the firing of the zero-delay   *)
(* timer.  Everything between two such suspension points runs to           *)
(* completion (promise continuations are microtasks), so it is one step.   *)
(***************************************************************************)
EXTENDS Integers, Sequences, FiniteSets, TLC

\* ------------------------------------------------------------------ bounds

\* Longest file list of an inbound message.
MaxFiles == 4

\* Chunk sizes 1..MaxSmallChunk are explored next to the program's CHUNK_SIZE.
MaxSmallChunk == 2

\* --------------------------------------------------------------- constants

\* fileProcessor.ts:38
CHUNK_SIZE == 50

\* The activations (invocations of self.onmessage) a worker instance can hold.
RunIds == {1, 2}

\* ------------------------------------------------------------- input values

\* An ArrayBuffer holding the given bytes.
Buffer(bytes) == [byteLength |-> Len(bytes), bytes |-> bytes]

\* A value of the arrayBuffer field that is no BufferSource (the field is
\* undefined): crypto.subtle.digest rejects it with a TypeError.
NotABuffer == [undefined |-> TRUE]

IsBufferSource(b) == "bytes" \in DOMAIN b

BytesABC == <<65, 66, 67>>
BytesXYZ == <<88, 89, 90>>

\* ProcessedFileData (fileProcessor.ts:9-15).  The universe the inbound file
\* lists are drawn from: two files with the same content but a different
\* caller-supplied size, a file with another content, a file without a
\* readable buffer, and a second unreadable file that carries the path of
\* the first file.
FileA == [path |-> "d/a.jpg", name |-> "a.jpg", size |-> 3, type |-> "image/jpeg",
          arrayBuffer |-> Buffer(BytesABC)]
FileB == [path |-> "d/b.jpg", name |-> "b.jpg", size |-> 5, type |-> "image/jpeg",
          arrayBuffer |-> Buffer(BytesABC)]
FileC == [path |-> "d/c.png", name |-> "c.png", size |-> 3, type |-> "image/png",
          arrayBuffer |-> Buffer(BytesXYZ)]
FileE == [path |-> "d/e.gif", name |-> "e.gif", size |-> 7, type |-> "image/gif",
          arrayBuffer |-> NotABuffer]
FileA2 == [path |-> "d/a.jpg", name |-> "a.jpg", size |-> 3, type |-> "image/jpeg",
           arrayBuffer |-> NotABuffer]

\* An element of the files array that is no object (null): the type
\* ProcessedFileData[] is not enforced on a message that crosses the worker
\* boundary.
NullElement == [null |-> TRUE]

IsObject(e) == "path" \in DOMAIN e

FileUniverse == {FileA, FileB, FileC, FileE, FileA2}

ElementUniverse == FileUniverse \cup {NullElement}

FileLists == UNION {[1..n -> ElementUniverse] : n \in 0..MaxFiles}

\* FileProcessorMessage (fileProcessor.ts:4-7) as it can arrive: with a files
\* array, without the files field, or with another type.
InboundMessages ==
    {[type |-> "processFiles", files |-> fs] : fs \in FileLists}
        \cup {[type |-> "processFiles"], [type |-> "ping"]}

HasFiles(data) == "files" \in DOMAIN data

\* The chunk sizes a run is explored with.  The program fixes CHUNK_SIZE; the
\* small sizes make the file lists of the model span several chunks.
ChunkSizes == (1..MaxSmallChunk) \cup {CHUNK_SIZE}

\* ---------------------------------------------------------------- hashFile

\* crypto.subtle.digest('SHA-256', bytes) computes SHA-256 (FIPS 180-4).  A
\* 32-bit word is the pair <<high, low>> of its 16-bit halves.

RECURSIVE BitXor(_, _)
\* a ^ b on naturals.
BitXor(a, b) ==
    IF a = 0 THEN b
    ELSE IF b = 0 THEN a
    ELSE ((a + b) % 2) + 2 * BitXor(a \div 2, b \div 2)

RECURSIVE BitAnd(_, _)
\* a & b on naturals.
BitAnd(a, b) ==
    IF a = 0 \/ b = 0 THEN 0
    ELSE (a % 2) * (b % 2) + 2 * BitAnd(a \div 2, b \div 2)

WordXor(x, y) == <<BitXor(x[1], y[1]), BitXor(x[2], y[2])>>

WordAnd(x, y) == <<BitAnd(x[1], y[1]), BitAnd(x[2], y[2])>>

\* x + y modulo 2^32.
WordAdd(x, y) ==
    LET low == x[2] + y[2]
        high == x[1] + y[1] + (low \div 65536)
    IN <<high % 65536, low % 65536>>

\* ROTR^n(x), 0 <= n < 32.
RotR(x, n) ==
    LET y == IF n >= 16 THEN <<x[2], x[1]>> ELSE x
        m == n % 16
    IN <<(y[1] \div 2^m) + (y[2] % 2^m) * 2^(16 - m),
         (y[2] \div 2^m) + (y[1] % 2^m) * 2^(16 - m)>>

\* SHR^n(x), 0 <= n < 16.
ShR(x, n) ==
    <<x[1] \div 2^n, (x[2] \div 2^n) + (x[1] % 2^n) * 2^(16 - n)>>

\* (x AND y) XOR (NOT x AND z)
Ch(x, y, z) ==
    WordXor(WordAnd(x, y), WordAnd(<<65535 - x[1], 65535 - x[2]>>, z))

Maj(x, y, z) == WordXor(WordXor(WordAnd(x, y), WordAnd(x, z)), WordAnd(y, z))

BigSigma0(x) == WordXor(WordXor(RotR(x, 2), RotR(x, 13)), RotR(x, 22))

BigSigma1(x) == WordXor(WordXor(RotR(x, 6), RotR(x, 11)), RotR(x, 25))

SmallSigma0(x) == WordXor(WordXor(RotR(x, 7), RotR(x, 18)), ShR(x, 3))

SmallSigma1(x) == WordXor(WordXor(RotR(x, 17), RotR(x, 19)), ShR(x, 10))

\* H(0): the first 32 bits of the fractional parts of the square roots of
\* the first 8 primes.
InitialHashValue ==
    <<<<27145, 58983>>, <<47975, 44677>>, <<15470, 62322>>, <<42319, 62778>>,
      <<20750, 21119>>, <<39685, 26764>>, <<8067, 55723>>, <<23520, 52505>>>>

\* K: the first 32 bits of the fractional parts of the cube roots of the
\* first 64 primes.
RoundConstants ==
    <<<<17034, 12184>>, <<28983, 17553>>, <<46528, 64463>>, <<59829, 56229>>,
      <<14678, 49755>>, <<23025, 4593>>, <<37439, 33444>>, <<43804, 24277>>,
      <<55303, 43672>>, <<4739, 23297>>, <<9265, 34238>>, <<21772, 32195>>,
      <<29374, 23924>>, <<32990, 45566>>, <<39900, 1703>>, <<49563, 61812>>,
      <<58523, 27073>>, <<61374, 18310>>, <<4033, 40390>>, <<9228, 41420>>,
      <<11753, 11375>>, <<19060, 33962>>, <<23728, 43484>>, <<30457, 35034>>,
      <<38974, 20818>>, <<43057, 50797>>, <<45059, 10184>>, <<48985, 32711>>,
      <<50912, 3059>>, <<54695, 37191>>, <<1738, 25425>>, <<5161, 10599>>,
      <<10167, 2693>>, <<11803, 8504>>, <<19756, 28156>>, <<21304, 3347>>,
      <<25866, 29524>>, <<30314, 2747>>, <<33218, 51502>>, <<37490, 11397>>,
      <<41663, 59553>>, <<43034, 26187>>, <<49739, 35696>>, <<51052, 20899>>,
      <<53650, 59417>>, <<54937, 1572>>, <<62478, 13701>>, <<4202, 41072>>,
      <<6564, 49430>>, <<7735, 27656>>, <<10056, 30540>>, <<13488, 48309>>,
      <<14620, 3251>>, <<20184, 43594>>, <<23452, 51791>>, <<26670, 28659>>,
      <<29839, 33518>>, <<30885, 25455>>, <<33992, 30740>>, <<36039, 520>>,
      <<37054, 65530>>, <<42064, 27883>>, <<48889, 41975>>, <<50801, 30962>>>>

\* The message followed by the bit 1, zero bits up to 56 modulo 64 bytes and
\* the length of the message in bits as a 64-bit big-endian number.
Padded(bytes) ==
    LET zeros == (119 - (Len(bytes) % 64)) % 64
        bits == 8 * Len(bytes)
    IN bytes \o <<128>> \o [k \in 1..zeros |-> 0]
             \o <<0, 0, 0, 0, (bits \div 16777216) % 256, (bits \div 65536) % 256,
                  (bits \div 256) % 256, bits % 256>>

\* The 16 big-endian words of the n-th 64-byte block (n from 0).
BlockWords(padded, n) ==
    [t \in 1..16 |->
        LET at == 64 * n + 4 * (t - 1)
        IN <<256 * padded[at + 1] + padded[at + 2],
             256 * padded[at + 3] + padded[at + 4]>>]

RECURSIVE MessageSchedule(_)
\* W(0..63), extended from the 16 words of the block.
MessageSchedule(w) ==
    IF Len(w) = 64 THEN w
    ELSE LET t == Len(w) + 1
         IN MessageSchedule(Append(w,
                WordAdd(WordAdd(SmallSigma1(w[t - 2]), w[t - 7]),
                        WordAdd(SmallSigma0(w[t - 15]), w[t - 16]))))

RECURSIVE Rounds(_, _, _)
\* The 64 rounds on the working variables <<a, b, c, d, e, f, g, h>>.
Rounds(v, w, t) ==
    IF t > 64 \/ Len(v) # 8 THEN v
    ELSE LET t1 == WordAdd(WordAdd(WordAdd(v[8], BigSigma1(v[5])),
                                   WordAdd(Ch(v[5], v[6], v[7]), RoundConstants[t])),
                           w[t])
             t2 == WordAdd(BigSigma0(v[1]), Maj(v[1], v[2], v[3]))
         IN Rounds(<<WordAdd(t1, t2), v[1], v[2], v[3],
                     WordAdd(v[4], t1), v[5], v[6], v[7]>>, w, t + 1)

\* H(i) from H(i-1) and the words of block i.
Compress(hash, words) ==
    LET v == Rounds(hash, MessageSchedule(words), 1)
    IN [k \in 1..8 |-> WordAdd(hash[k], v[k])]

RECURSIVE HashBlocks(_, _, _)
HashBlocks(hash, padded, n) ==
    IF 64 * n >= Len(padded) THEN hash
    ELSE HashBlocks(Compress(hash, BlockWords(padded, n)), padded, n + 1)

\* crypto.subtle.digest('SHA-256', bytes) (fileProcessor.ts:134): the 32
\* bytes of the digest, big-endian word by word.
Sha256(bytes) ==
    LET hash == HashBlocks(InitialHashValue, Padded(bytes), 0)
    IN [k \in 1..32 |->
          LET half == hash[((k - 1) \div 4) + 1][(((k - 1) % 4) \div 2) + 1]
          IN IF k % 2 = 1 THEN half \div 256 ELSE half % 256]

HexDigits == <<"0", "1", "2", "3", "4", "5", "6", "7",
               "8", "9", "a", "b", "c", "d", "e", "f">>

\* b.toString(16) for a byte b.
ToString16(b) ==
    IF b < 16 THEN HexDigits[b + 1]
    ELSE HexDigits[(b \div 16) + 1] \o HexDigits[(b % 16) + 1]

\* s.padStart(2, '0')
PadStart2(s) == IF Len(s) < 2 THEN "0" \o s ELSE s

RECURSIVE Join(_)
\* strings.join('')
Join(strings) ==
    IF strings = <<>> THEN "" ELSE Head(strings) \o Join(Tail(strings))

\* fileProcessor.ts:135-137
HexOf(hashBuffer) ==
    Join([k \in 1..Len(hashBuffer) |-> PadStart2(ToString16(hashBuffer[k]))])

\* The hex digests of the two contents the files of the universe hold.
HexDigestOfABC == HexOf(Sha256(BytesABC))

HexDigestOfXYZ == HexOf(Sha256(BytesXYZ))

\* fileProcessor.ts:134-137: the hex digest of the bytes, looked up for the
\* contents of the universe and computed for any other.
HexDigest(bytes) ==
    CASE bytes = BytesABC -> HexDigestOfABC
      [] bytes = BytesXYZ -> HexDigestOfXYZ
      [] OTHER -> HexOf(Sha256(bytes))

\* The runtime the worker runs in; it stays the same for the life of the
\* worker.
VARIABLE runtime

\* The message of the TypeError crypto.subtle.digest rejects a value that is
\* no BufferSource with.  The text is the runtime's: that of Chromium and
\* that of Node.js.
DigestTypeErrorOf ==
    [chromium |-> "Failed to execute 'digest' on 'SubtleCrypto': The provided value is not of type '(ArrayBuffer or ArrayBufferView)'.",
     node |-> "Failed to execute 'digest' on 'SubtleCrypto': 2nd argument is not instance of ArrayBuffer, Buffer, TypedArray, or DataView."]

Runtimes == DOMAIN DigestTypeErrorOf

\* error.message of the rejection in the runtime at hand (fileProcessor.ts:140).
DigestTypeError == DigestTypeErrorOf[runtime]

\* hashFile (fileProcessor.ts:132-142): the outcome of the promise, resolved
\* with the lowercase hex digest or rejected with the wrapped error.
HashFile(arrayBuffer) ==
    IF IsBufferSource(arrayBuffer)
    THEN [ok |-> TRUE, hash |-> HexDigest(arrayBuffer.bytes)]
    ELSE [ok |-> FALSE, message |-> "Failed to hash file: " \o DigestTypeError]

\* ---------------------------------------------------------- findDuplicates

RECURSIVE GroupByHashReinsert(_, _)
\* GroupByHash with the entry of a hash deleted and set again each time a
\* file joins it, so that the entries are in the order of their latest file.
GroupByHashReinsert(hashMap, processedFiles) ==
    IF processedFiles = <<>> THEN hashMap
    ELSE LET file == Head(processedFiles)
             old == SelectSeq(hashMap, LAMBDA e : e.hash = file.hash)
             rest == SelectSeq(hashMap, LAMBDA e : e.hash # file.hash)
             entry == IF old = <<>>
                      THEN [hash |-> file.hash, files |-> <<file>>]
                      ELSE [old[1] EXCEPT !.files = Append(@, file)]
         IN GroupByHashReinsert(Append(rest, entry), Tail(processedFiles))

RECURSIVE GroupByHashUnshift(_, _)
\* GroupByHash with unshift in place of push: the newest file of a hash
\* comes first in its entry.
GroupByHashUnshift(hashMap, processedFiles) ==
    IF processedFiles = <<>> THEN hashMap
    ELSE LET file == Head(processedFiles)
             has == \E k \in 1..Len(hashMap) : hashMap[k].hash = file.hash
             next == IF has
                     THEN [k \in 1..Len(hashMap) |->
                             IF hashMap[k].hash = file.hash
                             THEN [hashMap[k] EXCEPT !.files = <<file>> \o @]
                             ELSE hashMap[k]]
                     ELSE Append(hashMap, [hash |-> file.hash, files |-> <<file>>])
         IN GroupByHashUnshift(next, Tail(processedFiles))

RECURSIVE GroupByHashNoLookup(_, _)
\* GroupByHash without the hashMap.has test: every file opens an entry of
\* its own.
GroupByHashNoLookup(hashMap, processedFiles) ==
    IF processedFiles = <<>> THEN hashMap
    ELSE LET file == Head(processedFiles)
         IN GroupByHashNoLookup(
               Append(hashMap, [hash |-> file.hash, files |-> <<file>>]),
               Tail(processedFiles))

RECURSIVE GroupByHash(_, _)
\* fileProcessor.ts:145-154: the Map from hash to files, as the sequence of
\* its entries in insertion order (the order Map.forEach visits them).
GroupByHash(hashMap, processedFiles) ==
    IF processedFiles = <<>> THEN hashMap
    ELSE LET file == Head(processedFiles)
             has == \E k \in 1..Len(hashMap) : hashMap[k].hash = file.hash
             next == IF has
                     THEN [k \in 1..Len(hashMap) |->
                             IF hashMap[k].hash = file.hash
                             THEN [hashMap[k] EXCEPT !.files = Append(@, file)]
                             ELSE hashMap[k]]
                     ELSE Append(hashMap, [hash |-> file.hash, files |-> <<file>>])
         IN GroupByHash(next, Tail(processedFiles))

\* IsDuplicateEntry with the test group.length > 0.
IsNonEmptyEntry(group) == Len(group) > 0

\* fileProcessor.ts:161: the test that keeps an entry of the Map.
IsDuplicateEntry(group) == Len(group) > 1

RECURSIVE CollectGroupsFrom(_, _, _)
\* The forEach over the Map with groupId advanced at every entry, kept or
\* not.
CollectGroupsFrom(groupId, duplicateGroups, entries) ==
    IF entries = <<>> THEN duplicateGroups
    ELSE LET group == Head(entries).files
             hash == Head(entries).hash
         IN IF Len(group) > 1
            THEN CollectGroupsFrom(groupId + 1,
                    Append(duplicateGroups,
                           [id |-> "group-" \o ToString(groupId),
                            hash |-> hash,
                            files |-> group,
                            size |-> group[1].size]),
                    Tail(entries))
            ELSE CollectGroupsFrom(groupId + 1, duplicateGroups, Tail(entries))

\* CollectGroups with groupId++ moved out of the test group.length > 1: an
\* entry with a single file uses up an id.
CollectGroupsCountingAll(duplicateGroups, entries) ==
    CollectGroupsFrom(Len(duplicateGroups), duplicateGroups, entries)

RECURSIVE CollectGroups(_, _)
\* fileProcessor.ts:157-169: the forEach over the Map, duplicateGroups being
\* the groups pushed so far (groupId is their number).
CollectGroups(duplicateGroups, entries) ==
    IF entries = <<>> THEN duplicateGroups
    ELSE LET group == Head(entries).files
             hash == Head(entries).hash
             groupId == Len(duplicateGroups)
         IN IF IsDuplicateEntry(group)
            THEN CollectGroups(
                    Append(duplicateGroups,
                           [id |-> "group-" \o ToString(groupId),
                            hash |-> hash,
                            files |-> group,
                            size |-> group[1].size]),
                    Tail(entries))
            ELSE CollectGroups(duplicateGroups, Tail(entries))

\* findDuplicates (fileProcessor.ts:144-173)
FindDuplicates(processedFiles) ==
    CollectGroups(<<>>, GroupByHash(<<>>, processedFiles))

\* ------------------------------------------------------------------- state

VARIABLES
    inbox,      \* inbound messages posted to the worker and not yet delivered
    handled,    \* number of messages self.onmessage has been invoked with
    run,        \* per activation of self.onmessage: e.data and the locals of
                \* processFilesWithHashesInChunks (i, j, results, errors)
    out,        \* the messages passed to self.postMessage, in order, each
                \* with the activation that posted it
    chunkSize,  \* the chunk size the loop runs with
    lifecycle,  \* the component using useWorkerManager: "mounting" before
                \* the effect has run, "mounted", "unmounted" after cleanup
    worker,     \* useWorkerManager: the worker state ("null" or "live")
    processState,       \* useWorkerManager: 'idle' | 'processing' | 'done'
    callerProcessState, \* the state behind the setProcessState handed to
                \* useWorkerActions: 'idle' | 'processing' | 'done'
    statusMessage,      \* useWorkerManager: the status line
    duplicateGroups,    \* useWorkerManager: the groups of the last completed
    processingErrors,   \* useWorkerManager: the errors received so far
    delivered,  \* number of messages of `out` handed to newWorker.onmessage
    converting, \* the calls of processFiles that await convertFilesToData,
                \* each with its image files
    calls,      \* number of calls of processFiles, and of postMessage by
                \* the holder of the worker, so far
    selectedFiles,      \* ResultsView: the set of selected paths
    lastClick   \* ResultsView: the callback that ran last ("none",
                \* "toggle", "selectAll")

workerVars == <<inbox, handled, run, out, chunkSize, runtime>>

viewVars == <<selectedFiles, lastClick>>

hostVars == <<lifecycle, worker, processState, callerProcessState,
              statusMessage, duplicateGroups, processingErrors, delivered,
              converting, calls, viewVars>>

vars == <<inbox, handled, run, out, chunkSize, runtime, lifecycle, worker,
          processState, callerProcessState, statusMessage, duplicateGroups,
          processingErrors, delivered, converting, calls, selectedFiles,
          lastClick>>

\* An activation that has not started.
IdleRun ==
    [pc |-> "idle", data |-> [type |-> "none"], i |-> 0, j |-> 0,
     results |-> <<>>, errors |-> <<>>]

\* fileArray of an activation (fileProcessor.ts:69)
FileArray(a) == IF HasFiles(a.data) THEN a.data.files ELSE <<>>

\* AbsoluteIndex without the offset of the chunk.
IndexInChunk(i, j) == j

\* fileProcessor.ts:83
AbsoluteIndex(i, j) == i + j

Min(x, y) == IF x < y THEN x ELSE y

Max(x, y) == IF x < y THEN y ELSE x

\* array.slice(start, end): a negative index counts from the end, an index
\* beyond the array is the length of the array.
Slice(array, start, end) ==
    LET from == IF start < 0 THEN Max(Len(array) + start, 0)
                             ELSE Min(start, Len(array))
        to == IF end < 0 THEN Max(Len(array) + end, 0) ELSE Min(end, Len(array))
    IN [k \in 1..Max(to - from, 0) |-> array[from + k]]

\* ChunkLength for fileArray.slice(i, CHUNK_SIZE): the end of the slice is
\* the chunk size, not i + CHUNK_SIZE.
ChunkLengthSliceToSize(fileArray, i, size) == Len(Slice(fileArray, i, size))

\* chunk.length for chunk = fileArray.slice(i, i + CHUNK_SIZE) (fileProcessor.ts:77)
ChunkLength(fileArray, i, size) == Len(Slice(fileArray, i, i + size))

\* chunk[j] for chunk = fileArray.slice(i, i + CHUNK_SIZE) (fileProcessor.ts:77, 82)
ChunkElement(a) == Slice(FileArray(a), a.i, a.i + chunkSize)[a.j + 1]

\* ------------------------------------------------------- outbound messages

ProgressMessage(index, total, fileName) ==
    [type |-> "progress", index |-> index, total |-> total, fileName |-> fileName]

ErrorsMessage(errors) == [type |-> "errors", errors |-> errors]

CompletedMessage(groups) == [type |-> "completed", groups |-> groups]

ErrorMessage(message) == [type |-> "error", error |-> message]

LengthTypeError == "Cannot read properties of undefined (reading 'length')"

DestructureTypeError == "Cannot destructure property 'path' of 'chunk[j]' as it is null."

\* The outcome of a run-to-completion segment of an activation: the
\* activation after it and the messages it posted.
Outcome(a, posts) == [act |-> a, posts |-> posts]

\* Fatal with the completed message posted after the catch block (as from a
\* finally block), whether the run failed or not.
FatalThenCompleted(a, message) ==
    Outcome([a EXCEPT !.pc = "errored"],
            <<ErrorMessage(message), CompletedMessage(<<>>)>>)

\* The catch block of self.onmessage (fileProcessor.ts:59-65).
Fatal(a, message) ==
    Outcome([a EXCEPT !.pc = "errored"], <<ErrorMessage(message)>>)

\* AfterLoop with the test `if (errors)`, which an empty array passes.
AfterLoopErrorsTruthy(a) ==
    Outcome([a EXCEPT !.pc = "done"],
            <<ErrorsMessage(a.errors), CompletedMessage(FindDuplicates(a.results))>>)

\* fileProcessor.ts:118-129 and 51-58: the loop is over; the errors are
\* reported if there are any, the results are grouped and `completed` is
\* posted.
AfterLoop(a) ==
    Outcome([a EXCEPT !.pc = "done"],
            (IF Len(a.errors) > 0 THEN <<ErrorsMessage(a.errors)>> ELSE <<>>)
                \o <<CompletedMessage(FindDuplicates(a.results))>>)

\* EnterFile with the progress event left out before hashFile is called.
EnterFileUnannounced(a) ==
    LET element == ChunkElement(a)
    IN IF ~IsObject(element)
       THEN Fatal(a, DestructureTypeError)
       ELSE Outcome([a EXCEPT !.pc = "digest"], <<>>)

\* fileProcessor.ts:82-94: the body of the inner loop up to the await of
\* hashFile.  Destructuring an element that is no object throws, outside the
\* per-file try block, so the exception reaches the catch of self.onmessage.
EnterFile(a) ==
    LET element == ChunkElement(a)
    IN IF ~IsObject(element)
       THEN Fatal(a, DestructureTypeError)
       ELSE Outcome([a EXCEPT !.pc = "digest"],
                    <<ProgressMessage(AbsoluteIndex(a.i, a.j) + 1,
                                      Len(FileArray(a)), element.name)>>)

\* fileProcessor.ts:95-101
PushResult(a, file, hash) ==
    [a EXCEPT !.results = Append(@, [path |-> file.path, hash |-> hash,
                                     name |-> file.name, size |-> file.size,
                                     type |-> file.type])]

\* PushError with unshift in place of push: the newest error comes first.
UnshiftError(a, file, message) ==
    [a EXCEPT !.errors = <<[path |-> file.path, name |-> file.name,
                            error |-> message]>> \o @]

\* fileProcessor.ts:102-110
PushError(a, file, message) ==
    [a EXCEPT !.errors = Append(@, [path |-> file.path, name |-> file.name,
                                    error |-> message])]

\* InnerLoop without the zero-delay timer after the last chunk: the code
\* after the loop runs in the step that ends the last file.
InnerLoopNoFinalYield(a) ==
    IF a.j < ChunkLength(FileArray(a), a.i, chunkSize)
    THEN EnterFile(a)
    ELSE IF a.i + chunkSize >= Len(FileArray(a))
         THEN AfterLoop(a)
         ELSE Outcome([a EXCEPT !.pc = "yield"], <<>>)

\* fileProcessor.ts:81 and 115: the test of the inner loop; the next file of
\* the chunk, or the zero-delay timer after the chunk.
InnerLoop(a) ==
    IF a.j < ChunkLength(FileArray(a), a.i, chunkSize)
    THEN EnterFile(a)
    ELSE Outcome([a EXCEPT !.pc = "yield"], <<>>)

\* NextInChunk with the zero-delay timer awaited after every file instead of
\* after the chunk.
NextInChunkYielding(a) == Outcome([a EXCEPT !.j = a.j + 1, !.pc = "yield"], <<>>)

\* fileProcessor.ts:81: j++
NextInChunk(a) == InnerLoop([a EXCEPT !.j = a.j + 1])

\* fileProcessor.ts:94-101: hashFile resolved; the file joins the results and
\* the loop goes on.
OnResolved(a, file, hash) == NextInChunk(PushResult(a, file, hash))

\* OnRejected without the try block around hashFile: the rejection reaches
\* the catch block of self.onmessage.
OnRejectedAborts(a, file, message) == Fatal(a, message)

\* OnRejected with an empty catch block: the failing file is swallowed.
OnRejectedSwallowed(a, file, message) == NextInChunk(a)

\* fileProcessor.ts:102-110: hashFile rejected; the catch block of the loop
\* records the error and the loop goes on.
OnRejected(a, file, message) == NextInChunk(PushError(a, file, message))

\* fileProcessor.ts:76-81: the test of the outer loop; the first file of the
\* next chunk, or the code after the loop.
OuterLoop(a) ==
    IF a.i < Len(FileArray(a)) THEN InnerLoop([a EXCEPT !.j = 0]) ELSE AfterLoop(a)

\* NextChunk with a timer callback that never resolves the promise: the run
\* is left suspended for good, with no task pending.
NextChunkNeverResumed(a) == Outcome([a EXCEPT !.pc = "stalled"], <<>>)

\* fileProcessor.ts:76: i += CHUNK_SIZE
NextChunk(a) == OuterLoop([a EXCEPT !.i = a.i + chunkSize])

\* OnMessage with a default for the files field
\* (const { type, files = [] } = e.data).
OnMessageDefaultFiles(data) ==
    LET a == [IdleRun EXCEPT !.data = data]
    IN IF data.type # "processFiles"
       THEN Outcome([a EXCEPT !.pc = "ignored"], <<>>)
       ELSE OuterLoop(a)

\* OnMessage with an else branch that reports a type it does not know.
OnMessageRejectsUnknown(data) ==
    LET a == [IdleRun EXCEPT !.data = data]
    IN IF data.type # "processFiles"
       THEN Fatal(a, "Unknown message type")
       ELSE IF ~HasFiles(data)
       THEN Fatal(a, LengthTypeError)
       ELSE OuterLoop(a)

\* OnMessage with `results` declared at module level and never reset: a run
\* starts with the hashed files of the activation before it.
OnMessageKeepsResults(data) ==
    LET a == [IdleRun EXCEPT !.data = data, !.results =
                 IF handled \in RunIds THEN run[handled].results ELSE <<>>]
    IN IF data.type # "processFiles"
       THEN Outcome([a EXCEPT !.pc = "ignored"], <<>>)
       ELSE IF ~HasFiles(data)
       THEN Fatal(a, LengthTypeError)
       ELSE OuterLoop(a)

\* OnMessage with `errors` declared at module level and never reset: a run
\* starts with the errors the activation before it has recorded so far.
OnMessageKeepsErrors(data) ==
    LET a == [IdleRun EXCEPT !.data = data, !.errors =
                 IF handled \in RunIds THEN run[handled].errors ELSE <<>>]
    IN IF data.type # "processFiles"
       THEN Outcome([a EXCEPT !.pc = "ignored"], <<>>)
       ELSE IF ~HasFiles(data)
       THEN Fatal(a, LengthTypeError)
       ELSE OuterLoop(a)

\* self.onmessage up to its first suspension (fileProcessor.ts:42-67, 69-76).
OnMessage(data) ==
    LET a == [IdleRun EXCEPT !.data = data]
    IN IF data.type # "processFiles"
       THEN Outcome([a EXCEPT !.pc = "ignored"], <<>>)
       ELSE IF ~HasFiles(data)
       THEN Fatal(a, LengthTypeError)
       ELSE OuterLoop(a)

Post(r, posts) == out \o [k \in 1..Len(posts) |-> [run |-> r, msg |-> posts[k]]]

\* ------------------------------------------------------------------ actions

\* ResultsView: useState(new Set()), no callback has run.
ViewInitial ==
    /\ selectedFiles = {}
    /\ lastClick = "none"

\* useWorkerManager.ts:27-31: the useState initial values; the state behind
\* the setProcessState handed to useWorkerActions is of the same type
\* (line 107) and starts as the one of line 28 does.
HostInitial ==
    /\ ViewInitial
    /\ callerProcessState = "idle"
    /\ processState = "idle"
    /\ statusMessage = ""
    /\ duplicateGroups = <<>>
    /\ processingErrors = <<>>
    /\ delivered = 0
    /\ converting = <<>>
    /\ calls = 0

\* The worker alone, one message posted to it by whatever holds it.
Init ==
    /\ inbox \in {<<m>> : m \in InboundMessages}
    /\ handled = 0
    /\ run = [r \in RunIds |-> IdleRun]
    /\ out = <<>>
    /\ chunkSize \in ChunkSizes
    /\ runtime \in Runtimes
    /\ lifecycle = "mounted"
    /\ worker = "live"
    /\ HostInitial

\* The event loop delivers the next inbound message to self.onmessage.
Receive ==
    /\ inbox # <<>>
    /\ handled + 1 \in RunIds
    /\ LET r == handled + 1
           o == OnMessage(Head(inbox))
       IN /\ run' = [run EXCEPT ![r] = o.act]
          /\ out' = Post(r, o.posts)
    /\ inbox' = Tail(inbox)
    /\ handled' = handled + 1
    /\ UNCHANGED <<chunkSize, runtime, hostVars>>

\* The promise of hashFile settles (fileProcessor.ts:94-111) and the loop
\* runs on to its next suspension.
DigestSettled(r) ==
    /\ run[r].pc = "digest"
    /\ LET a == run[r]
           file == ChunkElement(a)
           h == HashFile(file.arrayBuffer)
           o == IF h.ok THEN OnResolved(a, file, h.hash)
                        ELSE OnRejected(a, file, h.message)
       IN /\ run' = [run EXCEPT ![r] = o.act]
          /\ out' = Post(r, o.posts)
    /\ UNCHANGED <<inbox, handled, chunkSize, runtime, hostVars>>

\* The zero-delay timer fires (fileProcessor.ts:115) and the loop runs on.
TimerFired(r) ==
    /\ run[r].pc = "yield"
    /\ LET o == NextChunk(run[r])
       IN /\ run' = [run EXCEPT ![r] = o.act]
          /\ out' = Post(r, o.posts)
    /\ UNCHANGED <<inbox, handled, chunkSize, runtime, hostVars>>

Next ==
    \/ Receive
    \/ \E r \in RunIds : DigestSettled(r)
    \/ \E r \in RunIds : TimerFired(r)

Spec == Init /\ [][Next]_vars

\* -------------------------------------------------------------------- host
\* useWorkerManager / useWorkerActions (src/hooks/useWorkerManager.ts) with
\* filterImageFiles and convertFilesToData of the file service.

MaxCalls == 2

\* What file.arrayBuffer() settles with.
Resolves(value) == [resolved |-> value]
Rejects == [rejected |-> "NotReadableError"]
IsResolved(settled) == "resolved" \in DOMAIN settled

\* File objects of a selection: two pictures of the same content (one of
\* them picked without a relative path), a picture of other content, a
\* picture whose content the digest of the worker rejects, a file that is
\* no picture, a file of type image/jpeg2000 and a picture that cannot be
\* read.
PicA == [name |-> "a.jpg", type |-> "image/jpeg", webkitRelativePath |-> "d/a.jpg",
         size |-> 3, arrayBuffer |-> Resolves(Buffer(BytesABC))]
PicB == [name |-> "b.jpg", type |-> "image/jpeg", webkitRelativePath |-> "",
         size |-> 3, arrayBuffer |-> Resolves(Buffer(BytesABC))]
PicC == [name |-> "c.png", type |-> "image/png", webkitRelativePath |-> "d/c.png",
         size |-> 3, arrayBuffer |-> Resolves(Buffer(BytesXYZ))]
PicE == [name |-> "e.gif", type |-> "image/gif", webkitRelativePath |-> "d/e.gif",
         size |-> 7, arrayBuffer |-> Resolves(NotABuffer)]
Notes == [name |-> "notes.txt", type |-> "text/plain",
          webkitRelativePath |-> "d/notes.txt",
          size |-> 9, arrayBuffer |-> Resolves(Buffer(BytesXYZ))]
PicJ == [name |-> "j.jp2", type |-> "image/jpeg2000", webkitRelativePath |-> "d/j.jp2",
         size |-> 3, arrayBuffer |-> Resolves(Buffer(BytesABC))]
PicLocked == [name |-> "u.png", type |-> "image/png", webkitRelativePath |-> "d/u.png",
              size |-> 4, arrayBuffer |-> Rejects]

\* The FileLists handed to processFiles: nothing, one picture, one picture
\* and a file that is no picture, two duplicates, two duplicates with
\* another picture between them, a picture and one the digest rejects, two
\* duplicates after one the digest rejects, two different pictures and a
\* file that is no picture, a picture and one that cannot be read, a
\* picture and a file whose type holds more than the name of a picture type.
Selections ==
    {<<>>, <<PicA>>, <<PicA, Notes>>, <<PicA, PicB>>, <<PicA, PicC, PicB>>,
     <<PicA, PicE>>, <<PicE, PicA, PicB>>, <<Notes, PicC, PicB>>,
     <<PicA, PicLocked>>, <<PicA, PicJ>>}

\* The string s holds the string t somewhere.
Contains(s, t) ==
    \E k \in 1..(Len(s) - Len(t) + 1) : SubSeq(s, k, k + Len(t) - 1) = t

\* fileService: the test of filterImageFiles on file.type,
\* /image\/(jpeg|png|gif|bmp|webp)/.test(file.type): the expression is not
\* anchored, so a type that holds one of the five anywhere passes.
IsImageType(type) ==
    \E subtype \in {"jpeg", "png", "gif", "bmp", "webp"} :
        Contains(type, "image/" \o subtype)

\* fileService: filterImageFiles
FilterImageFiles(files) == SelectSeq(files, LAMBDA file : IsImageType(file.type))

\* fileService: the object convertFilesToData builds of a file that was read.
FileData(file) ==
    [path |-> IF file.webkitRelativePath # "" THEN file.webkitRelativePath
                                              ELSE file.name,
     name |-> file.name,
     size |-> file.size,
     type |-> file.type,
     arrayBuffer |-> file.arrayBuffer.resolved]

\* convertFilesToData reading file by file and leaving out a file whose read
\* fails, instead of rejecting as a whole.
ConvertFilesToDataSkipping(files) ==
    LET read == SelectSeq(files, LAMBDA file : IsResolved(file.arrayBuffer))
    IN [ok |-> TRUE, fileData |-> [k \in 1..Len(read) |-> FileData(read[k])]]

\* fileService: convertFilesToData, Promise.all over the reads: the data of
\* all files, or a rejection if one read fails.
ConvertFilesToData(files) ==
    IF \A k \in 1..Len(files) : IsResolved(files[k].arrayBuffer)
    THEN [ok |-> TRUE, fileData |-> [k \in 1..Len(files) |-> FileData(files[k])]]
    ELSE [ok |-> FALSE]

\* useWorkerManager.ts:52
ProgressStatus(index, total, fileName) ==
    "Processing file " \o ToString(index) \o " of " \o ToString(total)
        \o ": " \o fileName

\* useWorkerManager.ts:59
CompletedWithErrorsStatus(n) ==
    "Processing completed with " \o ToString(n)
        \o " errors. See details in results."

\* useWorkerManager.ts:61
CompletedStatus == "Duplicate detection completed successfully"

\* useWorkerManager.ts:71
ErrorStatus(error) == "Error: " \o error

\* useWorkerManager.ts:86, 90
InitFailedStatus ==
    "Failed to initialize the processing worker. Please check the console for details."
UnsupportedStatus ==
    "Web Workers are not supported in your browser. Please use a modern browser."

\* The processingErrors that newWorker.onmessage reads at line 58: the
\* handler is created once, by the effect with the dependency list [] (lines
\* 34, 46, 94), and closes over the processingErrors of the render the
\* effect belongs to, the first one, whose value is the initial [] (line 31).
ClosedOverProcessingErrors == <<>>

\* A message the worker has posted waits for newWorker.onmessage.
Deliverable == delivered < Len(out)

\* The host before the effect of useWorkerManager has run.
InitHost ==
    /\ inbox = <<>>
    /\ handled = 0
    /\ run = [r \in RunIds |-> IdleRun]
    /\ out = <<>>
    /\ chunkSize = CHUNK_SIZE
    /\ runtime \in Runtimes
    /\ lifecycle = "mounting"
    /\ worker = "null"
    /\ HostInitial

\* useWorkerManager.ts:34-94: the effect creates the worker, or fails to.
Mount ==
    /\ lifecycle = "mounting"
    /\ lifecycle' = "mounted"
    /\ \E outcome \in {"created", "threw", "unsupported"} :
          CASE outcome = "created" ->
                  worker' = "live" /\ UNCHANGED statusMessage
            [] outcome = "threw" ->
                  statusMessage' = InitFailedStatus /\ UNCHANGED worker
            [] outcome = "unsupported" ->
                  statusMessage' = UnsupportedStatus /\ UNCHANGED worker
    /\ UNCHANGED <<workerVars, processState, duplicateGroups, processingErrors,
                   delivered, converting, calls,
                   callerProcessState, viewVars>>

\* A cleanup that does not call terminate(): the worker runs on after the
\* component is gone.
UnmountWithoutTerminate ==
    /\ lifecycle = "mounted"
    /\ lifecycle' = "unmounted"
    /\ UNCHANGED <<workerVars, worker, processState, statusMessage,
                   duplicateGroups, processingErrors, delivered, converting,
                   calls, callerProcessState, viewVars>>

\* useWorkerManager.ts:80-83: the cleanup of the effect, which exists when
\* the effect created a worker, calls newWorker.terminate().  terminate()
\* discards the tasks queued for the worker (the messages it has not yet
\* received), aborts its script (a pending digest or timer never resumes
\* the loop) and empties the queue of the messages the worker has posted
\* and the host has not yet received.  The worker state of the hook keeps
\* the terminated worker: setWorker is not called again.
Unmount ==
    /\ lifecycle = "mounted"
    /\ lifecycle' = "unmounted"
    /\ IF worker = "live"
       THEN /\ inbox' = <<>>
            /\ run' = [r \in RunIds |->
                          IF run[r].pc \in {"digest", "yield"}
                          THEN [run[r] EXCEPT !.pc = "terminated"]
                          ELSE run[r]]
            /\ out' = SubSeq(out, 1, delivered)
       ELSE UNCHANGED <<inbox, run, out>>
    /\ UNCHANGED <<handled, chunkSize, runtime, worker, processState,
                   statusMessage, duplicateGroups, processingErrors,
                   delivered, converting, calls, callerProcessState,
                   viewVars>>

\* useWorkerActions.processFiles up to its await (useWorkerManager.ts:
\* 109-131), callable whenever the caller holds it, also before the effect
\* has run and after the cleanup.  setProcessState is the function the
\* caller handed to useWorkerActions, not the setter of useWorkerManager's
\* processState; of the calls of one synchronous stretch the last one
\* stays.  Without a worker the hook of useWorkerManager.ts returns at once
\* (lines 111-114) and its second copy calls setProcessState('idle') before
\* it returns.
ProcessFiles(files) ==
    /\ calls < MaxCalls
    /\ calls' = calls + 1
    /\ IF worker = "null"
       THEN /\ callerProcessState' \in {callerProcessState, "idle"}
            /\ UNCHANGED converting
       ELSE LET imageFiles == FilterImageFiles(files)
            IN IF Len(imageFiles) < 2
               THEN callerProcessState' = "idle" /\ UNCHANGED converting
               ELSE /\ callerProcessState' = "processing"
                    /\ converting' = Append(converting, imageFiles)
    /\ UNCHANGED <<workerVars, lifecycle, worker, processState, statusMessage,
                   duplicateGroups, processingErrors, delivered, viewVars>>

\* useWorkerActions.processFiles after its await (useWorkerManager.ts:
\* 131-142): the promise of convertFilesToData settles; the message is
\* posted, or the catch calls setProcessState('idle').  After the cleanup
\* the message is posted to the terminated worker, which never receives it.
ConvertSettled(k) ==
    /\ k \in 1..Len(converting)
    /\ converting' = [n \in 1..(Len(converting) - 1) |->
                         IF n < k THEN converting[n] ELSE converting[n + 1]]
    /\ LET converted == ConvertFilesToData(converting[k])
       IN IF converted.ok
          THEN /\ inbox' = IF lifecycle = "mounted"
                           THEN Append(inbox, [type |-> "processFiles",
                                               files |-> converted.fileData])
                           ELSE inbox
               /\ UNCHANGED callerProcessState
          ELSE /\ callerProcessState' = "idle"
               /\ UNCHANGED inbox
    /\ UNCHANGED <<handled, run, out, chunkSize, runtime, lifecycle, worker,
                   processState, statusMessage, duplicateGroups,
                   processingErrors, delivered, calls, viewVars>>

\* The errors of a message replace the list instead of extending it.
ReplaceErrors(prev, errors) == errors

\* useWorkerManager.ts:66: prev => [...prev, ...errors]
AppendErrors(prev, errors) == prev \o errors

\* newWorker.onmessage (useWorkerManager.ts:46-75) on the next message the
\* worker has posted.
HostOnMessage ==
    /\ Deliverable
    /\ delivered' = delivered + 1
    /\ LET data == out[delivered + 1].msg
       IN CASE data.type = "progress" ->
                  /\ statusMessage' =
                        ProgressStatus(data.index, data.total, data.fileName)
                  /\ UNCHANGED <<processState, duplicateGroups, processingErrors>>
            [] data.type = "completed" ->
                  /\ duplicateGroups' = data.groups
                  /\ processState' = "done"
                  /\ statusMessage' =
                        IF Len(ClosedOverProcessingErrors) > 0
                        THEN CompletedWithErrorsStatus(
                                 Len(ClosedOverProcessingErrors))
                        ELSE CompletedStatus
                  /\ UNCHANGED processingErrors
            [] data.type = "errors" ->
                  /\ processingErrors' =
                        AppendErrors(processingErrors, data.errors)
                  /\ UNCHANGED <<processState, statusMessage, duplicateGroups>>
            [] data.type = "error" ->
                  /\ statusMessage' = ErrorStatus(data.error)
                  /\ processState' = "idle"
                  /\ UNCHANGED <<duplicateGroups, processingErrors>>
    /\ UNCHANGED <<workerVars, lifecycle, worker, converting, calls,
                   callerProcessState, viewVars>>

NextHost ==
    \/ Mount
    \/ Unmount
    \/ \E files \in Selections : ProcessFiles(files)
    \/ \E k \in 1..MaxCalls : ConvertSettled(k)
    \/ Receive
    \/ \E r \in RunIds : DigestSettled(r)
    \/ \E r \in RunIds : TimerFired(r)
    \/ HostOnMessage

SpecHost == InitHost /\ [][NextHost]_vars

\* worker.postMessage(data) by whoever holds the worker that useWorkerManager
\* returns (useWorkerManager.ts:97): the message reaches self.onmessage of
\* fileProcessor as it is, unless the worker has been terminated.
PostMessage(data) ==
    /\ worker = "live"
    /\ calls < MaxCalls
    /\ calls' = calls + 1
    /\ inbox' = IF lifecycle = "mounted" THEN Append(inbox, data) ELSE inbox
    /\ UNCHANGED <<handled, run, out, chunkSize, runtime, lifecycle, worker,
                   processState, callerProcessState, statusMessage,
                   duplicateGroups, processingErrors, delivered, converting,
                   viewVars>>

\* The host with the worker it returns used directly as well: a message
\* without files, a list with an element that is no object, a message of
\* another type.
NextDirect ==
    \/ NextHost
    \/ \E data \in {[type |-> "processFiles"],
                     [type |-> "processFiles", files |-> <<FileA, NullElement>>],
                     [type |-> "ping"]} : PostMessage(data)

SpecDirect == InitHost /\ [][NextDirect]_vars

\* ------------------------------------------------------------ observations

\* The messages an activation has posted, in order.
Emitted(r) ==
    LET mine == SelectSeq(out, LAMBDA m : m.run = r)
    IN [k \in 1..Len(mine) |-> mine[k].msg]

OfType(msgs, type) == SelectSeq(msgs, LAMBDA m : m.type = type)

\* An activation that was started by a processFiles message.
IsRun(r) == run[r].pc # "idle" /\ run[r].data.type = "processFiles"

Finished(r) == run[r].pc \in {"done", "errored"}

\* The positions of a file list whose hashing succeeds, and those whose
\* hashing fails.
Hashable(files) ==
    {k \in 1..Len(files) : IsObject(files[k]) /\ HashFile(files[k].arrayBuffer).ok}

Unhashable(files) ==
    {k \in 1..Len(files) : IsObject(files[k]) /\ ~HashFile(files[k].arrayBuffer).ok}

HashAt(files, k) == HashFile(files[k].arrayBuffer).hash

\* The positions whose hash no other hashed file of the list has.
UniqueHash(files) ==
    {k \in Hashable(files) :
        \A n \in Hashable(files) : HashAt(files, n) = HashAt(files, k) => n = k}

\* The groups of the completed message of a finished run.
GroupsOf(r) == OfType(Emitted(r), "completed")[1].groups

\* The entries of the errors message of a run (none without the message).
ErrorsOf(r) ==
    LET e == OfType(Emitted(r), "errors")
    IN IF e = <<>> THEN <<>> ELSE e[1].errors

RECURSIVE Flatten(_)
Flatten(seqs) == IF seqs = <<>> THEN <<>> ELSE Head(seqs) \o Flatten(Tail(seqs))

\* The members of all groups of a run, group after group.
MembersOf(r) == Flatten([g \in 1..Len(GroupsOf(r)) |-> GroupsOf(r)[g].files])

Count(seq, path) == Cardinality({k \in 1..Len(seq) : seq[k].path = path})

CountAt(files, positions, path) ==
    Cardinality({k \in positions : files[k].path = path})

PathsOf(seq) == {seq[k].path : k \in 1..Len(seq)}

DistinctPaths(files) ==
    \A k, n \in 1..Len(files) : files[k].path = files[n].path => k = n

\* ------------------------------------------------------------------ claims

\* C1 as stated: when a run ends with `completed`, the paths of the group
\* members, the paths of the recorded errors and the paths of the hashed
\* files with a unique hash are pairwise disjoint and together are the input
\* paths.
C1_PathSetsPartitionInput ==
    \A r \in RunIds :
        run[r].pc = "done" =>
            LET files == FileArray(run[r])
                grouped == PathsOf(MembersOf(r))
                failed == PathsOf(ErrorsOf(r))
                unique == {files[k].path : k \in UniqueHash(files)}
            IN /\ grouped \cap failed = {}
               /\ grouped \cap unique = {}
               /\ failed \cap unique = {}
               /\ grouped \cup failed \cup unique = PathsOf(files)

\* C1 amended: when a run ends with `completed`, every input file is counted
\* exactly once: for each path, the group members, error entries and
\* unique-hash files that carry it are together as many as the input files
\* that carry it, and no other path is reported; when the input paths are
\* pairwise distinct, the three path sets are pairwise disjoint and cover the
\* input.
C1_EveryFileAccountedOnce ==
    \A r \in RunIds :
        run[r].pc = "done" =>
            LET files == FileArray(run[r])
                grouped == PathsOf(MembersOf(r))
                failed == PathsOf(ErrorsOf(r))
                unique == {files[k].path : k \in UniqueHash(files)}
            IN /\ grouped \cup failed \subseteq PathsOf(files)
               /\ \A p \in PathsOf(files) :
                     Count(MembersOf(r), p) + Count(ErrorsOf(r), p)
                         + CountAt(files, UniqueHash(files), p)
                       = Count(files, p)
               /\ DistinctPaths(files) =>
                     /\ grouped \cap failed = {}
                     /\ grouped \cap unique = {}
                     /\ failed \cap unique = {}
                     /\ grouped \cup failed \cup unique = PathsOf(files)

\* A completed run over pairwise distinct paths with a group, an error and a
\* hashed file of unique hash.
C1_Witness ==
    \E r \in RunIds :
        /\ run[r].pc = "done"
        /\ DistinctPaths(FileArray(run[r]))
        /\ MembersOf(r) # <<>>
        /\ ErrorsOf(r) # <<>>
        /\ UniqueHash(FileArray(run[r])) # {}

\* The terminal messages (completed, error) among the messages of a run.
Terminals(r) == SelectSeq(Emitted(r), LAMBDA m : m.type \in {"completed", "error"})

\* What holds of the terminal messages of a run in every state: none while
\* the run is suspended, exactly one once it has ended, of the kind it ended
\* with, and it is the last message of the run.
TerminalOnceAndLast(r) ==
    LET msgs == Emitted(r)
    IN /\ run[r].pc \in {"digest", "yield"} => Terminals(r) = <<>>
       /\ Finished(r) =>
             /\ Len(Terminals(r)) = 1
             /\ msgs[Len(msgs)] = Terminals(r)[1]
             /\ Terminals(r)[1].type =
                    (IF run[r].pc = "done" THEN "completed" ELSE "error")

\* C2: every run started by a processFiles message emits exactly one of
\* completed / error, never both, and no message of that run follows it.
C2_TerminalExclusivity ==
    /\ [](\A r \in RunIds : IsRun(r) => TerminalOnceAndLast(r))
    /\ [][\A r \in RunIds :
            (IsRun(r) /\ Finished(r)) => Emitted(r)' = Emitted(r)]_vars

\* A run that has ended with `error` after it had emitted progress events.
C2_Witness ==
    \E r \in RunIds :
        /\ run[r].pc = "errored"
        /\ Len(Emitted(r)) >= 3
        /\ Emitted(r)[1].type = "progress"

\* The progress events of a run.
ProgressOf(r) == OfType(Emitted(r), "progress")

\* C3: the progress events of a run over N files carry the indexes 1, 2, ...
\* in this order without gap or duplicate and the total N; a run that
\* reaches `completed` has emitted exactly N of them, whether the files hash
\* or fail.
C3_ProgressMonotonicity ==
    \A r \in RunIds :
        IsRun(r) =>
            LET N == Len(FileArray(run[r]))
                progress == ProgressOf(r)
            IN /\ Len(progress) <= N
               /\ \A k \in 1..Len(progress) :
                     progress[k].index = k /\ progress[k].total = N
               /\ run[r].pc = "done" => Len(progress) = N

\* A completed run over three or more files in several chunks, with a file
\* that hashed and a file that failed.
C3_Witness ==
    \E r \in RunIds :
        /\ run[r].pc = "done"
        /\ Len(ProgressOf(r)) >= 3
        /\ chunkSize < Len(FileArray(run[r]))
        /\ run[r].results # <<>>
        /\ run[r].errors # <<>>

\* C4 as stated: in every run an errors message is emitted if and only if at
\* least one file failed; it is emitted at most once, after the last progress
\* event and immediately before `completed`; a run without a failing file
\* emits none.
C4_ErrorsIffFileFailed ==
    \A r \in RunIds :
        IsRun(r) =>
            LET msgs == Emitted(r)
                reported == OfType(msgs, "errors")
            IN /\ Len(reported) <= 1
               /\ run[r].errors = <<>> => reported = <<>>
               /\ Finished(r) => (reported # <<>> <=> run[r].errors # <<>>)
               /\ reported # <<>> =>
                     /\ Len(msgs) >= 2
                     /\ msgs[Len(msgs) - 1].type = "errors"
                     /\ msgs[Len(msgs)].type = "completed"
                     /\ \A k \in 1..(Len(msgs) - 2) : msgs[k].type = "progress"

\* C5: every group of a completed message has at least 2 files, all files of
\* a group carry the hash of the group, and no group has a hash that exactly
\* one hashed file of the input has.
C5_GroupMinimality ==
    \A r \in RunIds :
        run[r].pc = "done" =>
            LET files == FileArray(run[r])
                groups == GroupsOf(r)
            IN \A g \in 1..Len(groups) :
                  /\ Len(groups[g].files) >= 2
                  /\ \A f \in 1..Len(groups[g].files) :
                        groups[g].files[f].hash = groups[g].hash
                  /\ \A k \in UniqueHash(files) :
                        groups[g].hash # HashAt(files, k)

\* A completed run with a group and a hashed file whose hash is unique.
C5_Witness ==
    \E r \in RunIds :
        /\ run[r].pc = "done"
        /\ GroupsOf(r) # <<>>
        /\ UniqueHash(FileArray(run[r])) # {}

\* The first position of a file list that holds no object (one past the end
\* when every element is an object).
FirstMalformed(files) ==
    IF \E k \in 1..Len(files) : ~IsObject(files[k])
    THEN CHOOSE k \in 1..Len(files) :
            /\ ~IsObject(files[k])
            /\ \A n \in 1..(k - 1) : IsObject(files[n])
    ELSE Len(files) + 1

\* The input files whose hashing succeeds, as the results they give, and
\* those whose hashing fails, as the error entries they give, in input order.
ExpectedResults(files) ==
    LET good == SelectSeq(files, LAMBDA f : HashFile(f.arrayBuffer).ok)
    IN [k \in 1..Len(good) |->
          [path |-> good[k].path, hash |-> HashFile(good[k].arrayBuffer).hash,
           name |-> good[k].name, size |-> good[k].size, type |-> good[k].type]]

ExpectedErrors(files) ==
    LET bad == SelectSeq(files, LAMBDA f : ~HashFile(f.arrayBuffer).ok)
    IN [k \in 1..Len(bad) |->
          [path |-> bad[k].path, name |-> bad[k].name,
           error |-> HashFile(bad[k].arrayBuffer).message]]

\* The messages of a run over the file list taken as one single chunk: the
\* files one after the other, no chunk size involved.
Unchunked(files) ==
    LET stop == FirstMalformed(files)
        progress == [k \in 1..(stop - 1) |->
                        ProgressMessage(k, Len(files), files[k].name)]
    IN IF stop <= Len(files)
       THEN progress \o <<ErrorMessage(DestructureTypeError)>>
       ELSE progress
              \o (IF ExpectedErrors(files) # <<>>
                  THEN <<ErrorsMessage(ExpectedErrors(files))>> ELSE <<>>)
              \o <<CompletedMessage(FindDuplicates(ExpectedResults(files)))>>

IsPrefix(s, t) == Len(s) <= Len(t) /\ \A k \in 1..Len(s) : s[k] = t[k]

\* C6: for every file list, the messages of the run (progress indexes, errors
\* list, groups with their hashes and members in order) are those of the run
\* over the list as one chunk, whatever the chunk size: two chunk sizes give
\* the same messages.
C6_ChunkSizeInvariance ==
    \A r \in RunIds :
        (IsRun(r) /\ HasFiles(run[r].data)) =>
            /\ IsPrefix(Emitted(r), Unchunked(FileArray(run[r])))
            /\ Finished(r) => Emitted(r) = Unchunked(FileArray(run[r]))

\* A completed run with an error and with a group that has members in two
\* different chunks.
C6_Witness ==
    \E r \in RunIds :
        /\ run[r].pc = "done"
        /\ ErrorsOf(r) # <<>>
        /\ LET files == FileArray(run[r])
           IN \E k, n \in Hashable(files) :
                 /\ k < n
                 /\ HashAt(files, k) = HashAt(files, n)
                 /\ (k - 1) \div chunkSize # (n - 1) \div chunkSize

\* C7: a file whose hashing fails does not abort the run.  The run ends with
\* `error` only on a request without files or on an element that is no
\* object, never on a failed hash; a run that has ended with `completed` has
\* emitted a progress event for every file and attempted every hash, also
\* those after a failed one, and its groups are the groups of the files that
\* hashed.
C7_FailureIsolation ==
    \A r \in RunIds :
        IsRun(r) =>
            LET files == FileArray(run[r])
                attempts == Len(run[r].results) + Len(run[r].errors)
            IN /\ run[r].pc = "errored" =>
                     \/ ~HasFiles(run[r].data)
                     \/ /\ FirstMalformed(files) <= Len(files)
                        /\ attempts = FirstMalformed(files) - 1
               /\ (Finished(r) /\ FirstMalformed(files) > Len(files)
                     /\ HasFiles(run[r].data)) => run[r].pc = "done"
               /\ run[r].pc = "done" =>
                     /\ Len(ProgressOf(r)) = Len(files)
                     /\ attempts = Len(files)
                     /\ run[r].errors = ExpectedErrors(files)
                     /\ GroupsOf(r) = FindDuplicates(ExpectedResults(files))

\* A completed run whose first file failed to hash and whose later files
\* form a group.
C7_Witness ==
    \E r \in RunIds :
        /\ run[r].pc = "done"
        /\ 1 \in Unhashable(FileArray(run[r]))
        /\ GroupsOf(r) # <<>>

\* C8: the errors message of a run holds one entry for each file whose
\* hashing failed, none for a file that hashed, in input order; during the
\* run the recorded errors only grow at their end.
C8_ErrorListContent ==
    /\ [](\A r \in RunIds :
            (IsRun(r) /\ OfType(Emitted(r), "errors") # <<>>) =>
                /\ Len(OfType(Emitted(r), "errors")) = 1
                /\ ErrorsOf(r) = ExpectedErrors(FileArray(run[r])))
    /\ [][\A r \in RunIds :
            IsRun(r) => IsPrefix(run[r].errors, run'[r].errors)]_vars

\* An errors message with the entries of two different failed files, a file
\* that hashed lying between them in the input.
C8_Witness ==
    \E r \in RunIds :
        /\ Len(ErrorsOf(r)) >= 2
        /\ ErrorsOf(r)[1].path # ErrorsOf(r)[2].path
        /\ \E k \in Hashable(FileArray(run[r])) :
              /\ 1 \in Unhashable(FileArray(run[r]))
              /\ k > 1
              /\ \E n \in Unhashable(FileArray(run[r])) : n > k

\* C9: a processFiles message with files = [] yields `completed` with
\* groups = [] as the only message of the run, in the step that delivers the
\* message: no progress event, no errors message, no error message.
C9_EmptyInput ==
    \A r \in RunIds :
        (IsRun(r) /\ HasFiles(run[r].data) /\ run[r].data.files = <<>>) =>
            /\ run[r].pc = "done"
            /\ Emitted(r) = <<CompletedMessage(<<>>)>>

\* A run over the empty file list has been started.
C9_Witness ==
    \E r \in RunIds :
        /\ IsRun(r)
        /\ HasFiles(run[r].data)
        /\ run[r].data.files = <<>>
        /\ Len(Emitted(r)) = 1

\* C10: a processFiles message without the files field is a fatal error: the
\* run emits one `error` message and no progress, errors or completed
\* message.
C10_MissingFilesIsFatal ==
    \A r \in RunIds :
        (IsRun(r) /\ ~HasFiles(run[r].data)) =>
            /\ run[r].pc = "errored"
            /\ Len(Emitted(r)) = 1
            /\ Emitted(r)[1].type = "error"

\* A run on a processFiles message without files has ended with `error`.
C10_Witness ==
    \E r \in RunIds :
        /\ IsRun(r)
        /\ ~HasFiles(run[r].data)
        /\ OfType(Emitted(r), "error") # <<>>

\* The positions of a file list whose hashing gives the hash h, and the
\* first, the second and the last of them.
PositionsOf(files, h) == {k \in Hashable(files) : HashAt(files, k) = h}

SetMin(S) == CHOOSE x \in S : \A y \in S : x <= y

FirstOccurrence(files, h) == SetMin(PositionsOf(files, h))

SecondOccurrence(files, h) ==
    SetMin(PositionsOf(files, h) \ {FirstOccurrence(files, h)})

\* groups[g].id is the label of the g-th group: group-0, group-1, ...
LabelledInOrder(groups) ==
    \A g \in 1..Len(groups) : groups[g].id = "group-" \o ToString(g - 1)

\* C14 as stated: the groups of a completed run carry the ids group-0,
\* group-1, ... in the order of the input position of the SECOND occurrence
\* of their hash among the successfully hashed files.
C14_IdsBySecondOccurrence ==
    \A r \in RunIds :
        run[r].pc = "done" =>
            LET files == FileArray(run[r])
                groups == GroupsOf(r)
            IN /\ LabelledInOrder(groups)
               /\ \A g, h \in 1..Len(groups) :
                     g < h => SecondOccurrence(files, groups[g].hash)
                                < SecondOccurrence(files, groups[h].hash)

\* C14 amended: the groups of a completed run carry the ids group-0,
\* group-1, ... in the order in which their hashes are FIRST seen among the
\* successfully hashed files (the insertion order of the Map), whatever the
\* position of the second occurrence.
C14_IdsByFirstOccurrence ==
    \A r \in RunIds :
        run[r].pc = "done" =>
            LET files == FileArray(run[r])
                groups == GroupsOf(r)
            IN /\ LabelledInOrder(groups)
               /\ \A g, h \in 1..Len(groups) :
                     g < h => FirstOccurrence(files, groups[g].hash)
                                < FirstOccurrence(files, groups[h].hash)

\* A completed run with two groups, the hash seen first having its second
\* occurrence after the second occurrence of the other.
C14_Witness ==
    \E r \in RunIds :
        /\ run[r].pc = "done"
        /\ Len(GroupsOf(r)) = 2
        /\ LET files == FileArray(run[r])
               groups == GroupsOf(r)
           IN /\ FirstOccurrence(files, groups[1].hash)
                   < FirstOccurrence(files, groups[2].hash)
              /\ SecondOccurrence(files, groups[1].hash)
                   > SecondOccurrence(files, groups[2].hash)

\* The results of a file list that carry the hash h, in input order.
ResultsWithHash(files, h) ==
    SelectSeq(ExpectedResults(files), LAMBDA f : f.hash = h)

\* C15: in every group of a completed run, `files` lists the hashed input
\* files of the group's hash in the order of the input list, so that its
\* first member is the earliest input file with that hash.
C15_MemberOrder ==
    \A r \in RunIds :
        run[r].pc = "done" =>
            LET files == FileArray(run[r])
                groups == GroupsOf(r)
            IN \A g \in 1..Len(groups) :
                  /\ groups[g].files = ResultsWithHash(files, groups[g].hash)
                  /\ groups[g].files[1].path =
                        files[FirstOccurrence(files, groups[g].hash)].path

\* A completed run in several chunks with a group of three members of two
\* different paths, a file of another hash lying between them in the input.
C15_Witness ==
    \E r \in RunIds :
        /\ run[r].pc = "done"
        /\ chunkSize < Len(FileArray(run[r]))
        /\ \E g \in 1..Len(GroupsOf(r)) :
              LET files == FileArray(run[r])
                  members == GroupsOf(r)[g].files
                  positions == PositionsOf(files, GroupsOf(r)[g].hash)
              IN /\ Len(members) = 3
                 /\ members[1].path # members[2].path
                 /\ \E k \in Hashable(files) \ positions :
                       \E m, n \in positions : m < k /\ k < n

\* C16 as stated: the size of every group of a completed run is the size of
\* every member of the group, whatever size fields the request carries.
C16_SizeSharedByAllMembers ==
    \A r \in RunIds :
        run[r].pc = "done" =>
            \A g \in 1..Len(GroupsOf(r)) :
                \A m \in 1..Len(GroupsOf(r)[g].files) :
                    GroupsOf(r)[g].size = GroupsOf(r)[g].files[m].size

\* The hashes that two or more hashed files of a list share, in the order of
\* their first occurrence.
EligibleHashes(files) ==
    LET results == ExpectedResults(files)
        firsts == SelectSeq([k \in 1..Len(results) |-> [k |-> k, f |-> results[k]]],
                            LAMBDA e : \A n \in 1..(e.k - 1) :
                                          results[n].hash # e.f.hash)
        shared == SelectSeq(firsts,
                            LAMBDA e : \E n \in 1..Len(results) :
                                          n # e.k /\ results[n].hash = e.f.hash)
    IN [k \in 1..Len(shared) |-> shared[k].f.hash]

\* C18: the groups of a completed run are the hashes shared by two or more
\* hashed files, one group each, in the order of the input position of the
\* first file of each, labelled group-0, group-1, ... without gap; a hash
\* with a single file takes no label.
C18_ConsecutiveIdsByFirstFile ==
    \A r \in RunIds :
        run[r].pc = "done" =>
            LET files == FileArray(run[r])
                groups == GroupsOf(r)
                eligible == EligibleHashes(files)
            IN /\ Len(groups) = Len(eligible)
               /\ \A g \in 1..Len(groups) :
                     /\ groups[g].hash = eligible[g]
                     /\ groups[g].id = "group-" \o ToString(g - 1)

\* A completed run with a group whose first file comes after a hashed file
\* of a hash no other file has: the group is labelled group-0 all the same.
C18_Witness ==
    \E r \in RunIds :
        /\ run[r].pc = "done"
        /\ GroupsOf(r) # <<>>
        /\ GroupsOf(r)[1].id = "group-0"
        /\ LET files == FileArray(run[r])
           IN \E k \in UniqueHash(files) :
                 k < FirstOccurrence(files, GroupsOf(r)[1].hash)

\* C19 as stated: a run that ends with the fatal `error` message has emitted
\* that message and nothing else: no progress event and no errors message
\* comes before it.
C19_FatalPathClean ==
    \A r \in RunIds :
        (IsRun(r) /\ run[r].pc = "errored") =>
            /\ OfType(Emitted(r), "progress") = <<>>
            /\ OfType(Emitted(r), "errors") = <<>>
            /\ Len(Emitted(r)) = 1

\* ------------------------------------------------------------- host claims

\* What the host shows of the worker's messages.
HostView == <<processState, statusMessage, duplicateGroups, processingErrors>>

\* C11: once the cleanup has terminated the worker, no message of a run is
\* handed to the host any more, whatever the run was waiting for and
\* whatever it had posted: with the step that terminates and with every
\* later step, also a later call of processFiles, nothing the worker has
\* posted is left to deliver, no message is delivered, what the host shows
\* of the runs stays, the worker receives nothing and no run goes on.
C11_NoDeliveryAfterTerminate ==
    [][lifecycle' = "unmounted" =>
          /\ delivered' = delivered
          /\ Len(out') = delivered'
          /\ HostView' = HostView
          /\ handled' = handled
          /\ \A r \in RunIds : run'[r].pc \notin {"digest", "yield"}]_vars

\* The worker was terminated in the middle of a run: the host had received
\* the progress event of the first file and nothing else, and the run had
\* gone on to a later file, so that at least one message it had posted was
\* discarded.
C11_Witness ==
    /\ lifecycle = "unmounted"
    /\ delivered = 1
    /\ Len(out) = 1
    /\ \E r \in RunIds :
          /\ run[r].pc = "terminated"
          /\ run[r].j >= 1
          /\ out[1].run = r
          /\ out[1].msg.type = "progress"

\* The runs the worker has been sent and that have not ended: the messages
\* waiting in its queue and the activations that are suspended.
RunsInFlight ==
    Len(SelectSeq(inbox, LAMBDA m : m.type = "processFiles"))
        + Cardinality({r \in RunIds : IsRun(r) /\ ~Finished(r)})

\* C12 as stated: between a processFiles message and the terminal message of
\* its run the host sends the worker no second processFiles message: at most
\* one run is in flight at any time.
C12_SingleRunPerWorker == RunsInFlight <= 1

\* The last message handed to newWorker.onmessage is the `completed` of a
\* run whose `errors` message, with at least one entry, was handed to it
\* before.
PartialSuccessReceived ==
    /\ delivered >= 2
    /\ out[delivered].msg.type = "completed"
    /\ \E k \in 1..(delivered - 1) :
          /\ out[k].run = out[delivered].run
          /\ out[k].msg.type = "errors"
          /\ out[k].msg.errors # <<>>

\* C13 as stated: when the host has received an errors message with at least
\* one entry and then `completed`, its status message reports the completion
\* with the number of errors and is not the message of a clean completion.
C13_PartialSuccessDistinguishable ==
    PartialSuccessReceived =>
        /\ statusMessage # CompletedStatus
        /\ \E n \in 1..Len(processingErrors) :
              statusMessage = CompletedWithErrorsStatus(n)

\* The positions of the list of a completed run that hold bytes to digest.
WithBytes(r) ==
    {k \in 1..Len(FileArray(run[r])) :
        IsBufferSource(FileArray(run[r])[k].arrayBuffer)}

\* The result recorded for the hashed file at position k of the list of a
\* run that has gone through the whole list.
ResultAt(r, k) ==
    run[r].results[Cardinality({n \in WithBytes(r) : n <= k})]

\* The bytes at position k of the list of a run.
BytesAt(r, k) == FileArray(run[r])[k].arrayBuffer.bytes

\* C17: identical bytes give the identical digest in every chunk and in
\* every run: in completed runs, two hashed files of identical content are
\* recorded with the same hash, whether they belong to one run or to two,
\* and two of them in one run are members of one group; all members of a
\* group carry the hash of the group, so that files of different digests are
\* never in one group.
C17_GroupingDeterministic ==
    \A r1 \in RunIds :
        run[r1].pc = "done" =>
            LET groups == GroupsOf(r1)
                hashed1 == WithBytes(r1)
            IN /\ \A r2 \in RunIds :
                     run[r2].pc = "done" =>
                         LET hashed2 == WithBytes(r2)
                         IN \A k \in hashed1 : \A n \in hashed2 :
                               BytesAt(r1, k) = BytesAt(r2, n) =>
                                   /\ ResultAt(r1, k).hash = ResultAt(r2, n).hash
                                   /\ (r1 = r2 /\ k < n) =>
                                         \E g \in 1..Len(groups) :
                                             \E a, b \in 1..Len(groups[g].files) :
                                                 /\ a < b
                                                 /\ groups[g].files[a] = ResultAt(r1, k)
                                                 /\ groups[g].files[b] = ResultAt(r1, n)
               /\ \A g \in 1..Len(groups) :
                     \A m \in 1..Len(groups[g].files) :
                         groups[g].files[m].hash = groups[g].hash
               /\ \A g, h \in 1..Len(groups) :
                     groups[g].hash = groups[h].hash => g = h

\* Two completed runs with one file per chunk, each with a group of the same
\* hash, one of them with a file of another digest between the members.
C17_Witness ==
    /\ chunkSize = 1
    /\ run[1].pc = "done"
    /\ run[2].pc = "done"
    /\ GroupsOf(1) # <<>>
    /\ GroupsOf(2) # <<>>
    /\ GroupsOf(1)[1].hash = GroupsOf(2)[1].hash
    /\ \E r \in RunIds :
          \E k \in UniqueHash(FileArray(run[r])) :
              /\ FirstOccurrence(FileArray(run[r]), GroupsOf(r)[1].hash) < k
              /\ k < SecondOccurrence(FileArray(run[r]), GroupsOf(r)[1].hash)

\* C20 as stated: the run state of the host, the processState of
\* useWorkerManager as well as the state behind the setProcessState of
\* useWorkerActions, moves only from idle
\* to processing and from processing to done or errored (a new invocation
\* starting again from a terminal state); once it has left idle no step
\* brings it back to idle.
C20_NoWayBackToIdle ==
    [][LET allowed == {<<"idle", "processing">>, <<"processing", "done">>,
                       <<"processing", "errored">>, <<"done", "processing">>,
                       <<"errored", "processing">>}
       IN /\ processState' # processState =>
                <<processState, processState'>> \in allowed
          /\ callerProcessState' # callerProcessState =>
                <<callerProcessState, callerProcessState'>> \in allowed]_vars

\* ------------------------------------------------- scheduling of the worker

\* The files of a run whose outcome has been recorded, as a result or as an
\* error.
Recorded(r) == Len(run[r].results) + Len(run[r].errors)

\* C21: in every run the progress event of a file is emitted before its
\* digest is requested and the outcome of the digest is recorded before the
\* progress event of the next file: while a digest is awaited the last
\* progress event is that of the file being hashed and all files before it
\* are recorded; otherwise every announced file is recorded; so at most one
\* digest is in flight per run.
C21_PerFileOrdering ==
    \A r \in RunIds :
        IsRun(r) =>
            LET progress == ProgressOf(r)
            IN /\ Len(progress) - Recorded(r) \in {0, 1}
               /\ run[r].pc = "digest" <=> Len(progress) = Recorded(r) + 1
               /\ run[r].pc = "digest" =>
                     /\ progress[Len(progress)].index
                           = AbsoluteIndex(run[r].i, run[r].j) + 1
                     /\ progress[Len(progress)].fileName = ChunkElement(run[r]).name

\* A run awaits the digest of its third file, a failed and a hashed file
\* being recorded before it.
C21_Witness ==
    \E r \in RunIds :
        /\ run[r].pc = "digest"
        /\ Len(ProgressOf(r)) = 3
        /\ Len(run[r].results) = 1
        /\ Len(run[r].errors) = 1

\* The slice a run is in holds the files i+1 .. i+size of the list, i being
\* a multiple of the chunk size, and the file awaited is one of them.
InSlice(a) ==
    /\ a.i % chunkSize = 0
    /\ a.j < chunkSize
    /\ AbsoluteIndex(a.i, a.j) < Len(FileArray(a))

\* What a step of a run does to its place in the list: from a file to the
\* next file of the same slice without a yield; from the last file of a
\* slice, and from no other, to the yield; from the yield to the first file
\* of the next slice or to the end of the run, never to a second yield.
SliceStep(a, b) ==
    /\ (a.pc = "digest" /\ b.pc = "digest") =>
          /\ b.i = a.i
          /\ b.j = a.j + 1
    /\ (a.pc = "digest" /\ b.pc = "yield") =>
          /\ b.i = a.i
          /\ a.j + 1 = ChunkLength(FileArray(a), a.i, chunkSize)
    /\ (a.pc = "digest" /\ b.pc = "done") => FALSE
    /\ (a.pc = "yield" /\ b.pc = "digest") =>
          /\ b.i = a.i + chunkSize
          /\ b.j = 0
    /\ (a.pc = "yield" /\ b.pc = "done") =>
          a.i + chunkSize >= Len(FileArray(a))

\* C22: the files are processed in contiguous slices of the chunk size in
\* input order; between the last file of a slice and the first file of the
\* next the run yields exactly once (one zero-delay timer), and between two
\* files of one slice it does not yield.
C22_ChunkedScheduling ==
    /\ [](\A r \in RunIds :
            (IsRun(r) /\ run[r].pc = "digest") => InSlice(run[r]))
    /\ [][\A r \in RunIds :
            (IsRun(r) /\ run'[r] # run[r]) => SliceStep(run[r], run'[r])]_vars

\* A run with two files per slice awaits the digest of the first file of
\* its second slice.
C22_Witness ==
    \E r \in RunIds :
        /\ chunkSize = 2
        /\ run[r].pc = "digest"
        /\ run[r].i = 2
        /\ run[r].j = 0
        /\ Len(FileArray(run[r])) = 4

\* The worker before a message has been posted to it.
InitQuiet ==
    /\ inbox = <<>>
    /\ handled = 0
    /\ run = [r \in RunIds |-> IdleRun]
    /\ out = <<>>
    /\ chunkSize \in ChunkSizes
    /\ runtime \in Runtimes
    /\ lifecycle = "mounted"
    /\ worker = "live"
    /\ HostInitial

\* worker.postMessage(message) by whatever holds the worker, once.
Submit ==
    /\ inbox = <<>>
    /\ handled = 0
    /\ \E message \in InboundMessages : inbox' = <<message>>
    /\ UNCHANGED <<handled, run, out, chunkSize, runtime, hostVars>>

NextFair ==
    \/ Submit
    \/ Next

\* Weak fairness of DigestSettled(r), WF_vars(DigestSettled(r)), written out
\* as []<>~ENABLED <<A>>_vars \/ []<><<A>>_vars with the enabling condition
\* of the action as a state predicate: the digest of a run is not awaited
\* for ever, it resolves or rejects.
DigestFair(r) ==
    \/ []<>(~(run[r].pc = "digest"))
    \/ []<><<DigestSettled(r)>>_vars

\* Weak fairness of TimerFired(r), written out in the same way: the
\* zero-delay timer of a run is not pending for ever, it fires.
TimerFair(r) ==
    \/ []<>(~(run[r].pc = "yield"))
    \/ []<><<TimerFired(r)>>_vars

\* The worker with every task that is ready eventually run: the message is
\* delivered, digests settle, timers fire.
FairSpec ==
    /\ InitQuiet
    /\ [][NextFair]_vars
    /\ WF_vars(Receive)
    /\ \A r \in RunIds : DigestFair(r) /\ TimerFair(r)

\* A request with a files array all of whose elements are objects.
WellFormed(data) ==
    /\ HasFiles(data)
    /\ \A k \in 1..Len(data.files) : IsObject(data.files[k])

\* C23: if every digest settles, every zero-delay timer fires and the worker
\* is not terminated, every run started with a well-formed file list
\* eventually emits `completed`, whether its files hash or fail.
C23_RunCompletes ==
    \A r \in RunIds :
        (IsRun(r) /\ WellFormed(run[r].data))
            ~> (run[r].pc = "done" /\ OfType(Emitted(r), "completed") # <<>>)

\* A run over four well-formed files in several slices, one of them failing,
\* has emitted `completed`.
C23_Witness ==
    \E r \in RunIds :
        /\ WellFormed(run[r].data)
        /\ Len(FileArray(run[r])) = 4
        /\ chunkSize < 4
        /\ run[r].errors # <<>>
        /\ OfType(Emitted(r), "completed") # <<>>

\* C28: a message whose type is not processFiles is ignored: its activation
\* of self.onmessage posts no message at all, records nothing and starts no
\* run, and nothing is posted later on its account.
C28_UnknownTypeIgnored ==
    \A r \in RunIds :
        (run[r].pc # "idle" /\ run[r].data.type # "processFiles") =>
            /\ run[r].pc = "ignored"
            /\ Emitted(r) = <<>>
            /\ run[r].results = <<>>
            /\ run[r].errors = <<>>
            /\ ~IsRun(r)

\* A message of another type has been delivered to self.onmessage.
C28_Witness ==
    \E r \in RunIds :
        /\ handled >= r
        /\ run[r].data.type = "ping"
        /\ inbox = <<>>

\* x / y rounded up.
CeilDiv(x, y) == (x + y - 1) \div y

\* The zero-delay timers a run has awaited to the end: i advances by the
\* chunk size each time one has fired, and at no other time.
YieldsDone(a) == a.i \div chunkSize

\* C29: the run yields after every chunk, the last one included: a completed
\* run over N >= 1 files has awaited ceil(N / K) zero-delay timers, and the
\* errors and completed messages are posted in the step of the last timer,
\* never in the step that ends the digest of the last file.
C29_YieldBeforeTerminal ==
    /\ [](\A r \in RunIds :
            (run[r].pc = "done" /\ Len(FileArray(run[r])) >= 1) =>
                /\ run[r].i % chunkSize = 0
                /\ YieldsDone(run[r]) = CeilDiv(Len(FileArray(run[r])), chunkSize))
    /\ [][\A r \in RunIds :
            (IsRun(r) /\ Len(FileArray(run[r])) >= 1
                /\ Len(Emitted(r)') > Len(Emitted(r))
                /\ Emitted(r)'[Len(Emitted(r)')].type = "completed") =>
                    /\ run[r].pc = "yield"
                    /\ Len(ProgressOf(r)') = Len(ProgressOf(r))
                    /\ run'[r].results = run[r].results
                    /\ run'[r].errors = run[r].errors]_vars

\* A completed run over three files in chunks of two, with an errors message:
\* two timers awaited.
C29_Witness ==
    \E r \in RunIds :
        /\ run[r].pc = "done"
        /\ chunkSize = 2
        /\ Len(FileArray(run[r])) = 3
        /\ YieldsDone(run[r]) = 2
        /\ ErrorsOf(r) # <<>>

\* ------------------------------------------------------- two runs, one worker

\* The file lists of two requests posted to one worker: the empty list, a
\* single file, two duplicates, two duplicates after and around a file of
\* another content, two duplicates after a file that fails, two groups, two
\* files that fail, a malformed element after a file.
RunLists ==
    {<<>>, <<FileC>>, <<FileA, FileB>>, <<FileC, FileA, FileB>>,
     <<FileA, FileC, FileB>>,
     <<FileE, FileA, FileB>>, <<FileA, FileC, FileC, FileB>>,
     <<FileE, FileA2>>, <<FileA, NullElement>>}

\* Two processFiles messages have been posted to the worker; the second is
\* delivered when the event loop gets to it, after the first run has ended
\* or while it is suspended.
InitPair ==
    /\ inbox \in {<<[type |-> "processFiles", files |-> first],
                    [type |-> "processFiles", files |-> second]>> :
                     first \in RunLists, second \in RunLists}
    /\ handled = 0
    /\ run = [r \in RunIds |-> IdleRun]
    /\ out = <<>>
    /\ chunkSize \in ChunkSizes
    /\ runtime \in Runtimes
    /\ lifecycle = "mounted"
    /\ worker = "live"
    /\ HostInitial

SpecPair == InitPair /\ [][Next]_vars

\* Some message of run 2 was posted before some message of run 1: run 2
\* started while run 1 was suspended.
Interleaved ==
    \E k, n \in 1..Len(out) : k < n /\ out[k].run = 2 /\ out[n].run = 1

\* C24: when a run starts after the run before it on the same worker has
\* ended, its messages are those its own file list gives on a fresh worker:
\* progress counts from 1, the errors and the groups hold files of its own
\* list only and the group ids start at group-0 again.
C24_RunScopedState ==
    (Finished(1) /\ IsRun(2) /\ ~Interleaved) =>
        /\ IsPrefix(Emitted(2), Unchunked(FileArray(run[2])))
        /\ Finished(2) => Emitted(2) = Unchunked(FileArray(run[2]))
        /\ IsPrefix(run[2].results, ExpectedResults(
              SelectSeq(FileArray(run[2]), IsObject)))
        /\ IsPrefix(run[2].errors, ExpectedErrors(
              SelectSeq(FileArray(run[2]), IsObject)))

\* Two runs one after the other have completed, the first with a group and
\* an error, the second with a group of its own labelled group-0 and no
\* error.
C24_Witness ==
    /\ run[1].pc = "done"
    /\ run[2].pc = "done"
    /\ ~Interleaved
    /\ GroupsOf(1) # <<>>
    /\ ErrorsOf(1) # <<>>
    /\ Len(GroupsOf(2)) = 1
    /\ GroupsOf(2)[1].id = "group-0"
    /\ ErrorsOf(2) = <<>>
    /\ Len(GroupsOf(2)[1].files) = 2

\* C25: a second processFiles message delivered while the first run is
\* suspended starts a second run; a step of one run leaves the results and
\* errors of the other as they are, and the messages of each run, picked
\* out of the interleaved outbound stream, are those its file list gives
\* alone.
C25_OverlappingRuns ==
    /\ [](\A r \in RunIds :
            IsRun(r) =>
                /\ IsPrefix(Emitted(r), Unchunked(FileArray(run[r])))
                /\ Finished(r) => Emitted(r) = Unchunked(FileArray(run[r])))
    /\ [][\A r, q \in RunIds :
            (r # q /\ run'[r] # run[r]) =>
                /\ run'[q] = run[q]
                /\ Emitted(q)' = Emitted(q)]_vars

\* Two runs that overlapped have completed, a message of the second lying
\* between messages of the first; the first has reported an error, the
\* second a group.
C25_Witness ==
    /\ run[1].pc = "done"
    /\ run[2].pc = "done"
    /\ \E k, m, n \in 1..Len(out) :
          k < m /\ m < n /\ out[k].run = 1 /\ out[m].run = 2 /\ out[n].run = 1
    /\ ErrorsOf(1) # <<>>
    /\ GroupsOf(2) # <<>>
    /\ ErrorsOf(2) = <<>>

\* ------------------------------------------------------ host error list

\* C26: in useWorkerManager an errors message appends its entries to
\* processingErrors in arrival order, and no other message, and no new call
\* of processFiles, changes the list: the list before a step is always a
\* prefix of the list after it.
C26_HostErrorsOnlyGrow ==
    [][/\ IsPrefix(processingErrors, processingErrors')
       /\ IF delivered' # delivered /\ out[delivered + 1].msg.type = "errors"
          THEN processingErrors' =
                  processingErrors \o out[delivered + 1].msg.errors
          ELSE processingErrors' = processingErrors]_vars

\* The errors message of a first run has arrived, then the error message of
\* a second run, and the list still holds the entries of the first run.
C26_Witness ==
    /\ processState = "idle"
    /\ processingErrors # <<>>
    /\ delivered >= 2
    /\ out[delivered].run = 2
    /\ out[delivered].msg.type = "error"
    /\ statusMessage = ErrorStatus(out[delivered].msg.error)
    /\ \E k \in 1..(delivered - 1) :
          /\ out[k].run = 1
          /\ out[k].msg.type = "errors"
          /\ processingErrors = out[k].msg.errors

\* ---------------------------------------------------- host submission guard

\* The lists the worker has been sent or has received hold at least two
\* files.
AtLeastTwoSubmitted ==
    /\ \A k \in 1..Len(inbox) :
          inbox[k].type = "processFiles" /\ Len(inbox[k].files) >= 2
    /\ \A r \in RunIds :
          IsRun(r) =>
              run[r].data.type = "processFiles" /\ Len(run[r].data.files) >= 2

ImageGroups(groups) ==
    [g \in 1..Len(groups) |->
        [groups[g] EXCEPT !.files =
            [n \in 1..Len(groups[g].files) |->
                [path |-> groups[g].files[n].path]]]]

\* The paths of the files after the first of each group.
AllButOne(imageGroups) ==
    UNION {{imageGroups[g].files[n].path : n \in 2..Len(imageGroups[g].files)} :
              g \in 1..Len(imageGroups)}

\* The paths of the cards rendered as KEEP: the first file of each group.
Kept(imageGroups) ==
    {imageGroups[g].files[1].path : g \in 1..Len(imageGroups)}

\* The file lists behind the groups ResultsView is rendered with: the lists
\* of well-formed elements.
ViewLists == {files \in FileLists : \A k \in 1..Len(files) : IsObject(files[k])}

\* ResultsView rendered with the groups and the errors of a completed run.
InitView ==
    /\ runtime \in Runtimes
    /\ \E files \in ViewLists :
          /\ duplicateGroups = FindDuplicates(ExpectedResults(files))
          /\ processingErrors = ExpectedErrors(files)
    /\ processState = "done"
    /\ callerProcessState = "idle"
    /\ statusMessage = CompletedStatus
    /\ delivered = 0
    /\ converting = <<>>
    /\ calls = 0
    /\ inbox = <<>>
    /\ handled = 0
    /\ run = [r \in RunIds |-> IdleRun]
    /\ out = <<>>
    /\ chunkSize = CHUNK_SIZE
    /\ lifecycle = "mounted"
    /\ worker = "live"
    /\ ViewInitial

\* ResultsView (part_007:360): the view with the buttons and the cards is
\* rendered unless there is neither a group nor a processing error.
ResultsRendered ==
    ~(Len(ImageGroups(duplicateGroups)) = 0 /\ Len(processingErrors) = 0)

\* ResultsView: handleToggleSelect, from the button of a card that is not
\* the first of its group.
ToggleSelect(path) ==
    /\ ResultsRendered
    /\ path \in AllButOne(ImageGroups(duplicateGroups))
    /\ selectedFiles' = IF path \in selectedFiles
                        THEN selectedFiles \ {path}
                        ELSE selectedFiles \cup {path}
    /\ lastClick' = "toggle"
    /\ UNCHANGED <<workerVars, lifecycle, worker, processState,
                   callerProcessState, statusMessage, duplicateGroups,
                   processingErrors, delivered, converting, calls>>

\* ResultsView: selectAllButOneInGroups, from the button Select All
\* Duplicates.
SelectAllButOneInGroups ==
    /\ ResultsRendered
    /\ selectedFiles' = AllButOne(ImageGroups(duplicateGroups))
    /\ lastClick' = "selectAll"
    /\ UNCHANGED <<workerVars, lifecycle, worker, processState,
                   callerProcessState, statusMessage, duplicateGroups,
                   processingErrors, delivered, converting, calls>>

\* ResultsView (part_007:406): the button Deselect All,
\* () => setSelectedFiles(new Set()).
DeselectAll ==
    /\ ResultsRendered
    /\ selectedFiles' = {}
    /\ lastClick' = "deselectAll"
    /\ UNCHANGED <<workerVars, lifecycle, worker, processState,
                   callerProcessState, statusMessage, duplicateGroups,
                   processingErrors, delivered, converting, calls>>

NextView ==
    \/ \E path \in {f.path : f \in FileUniverse} : ToggleSelect(path)
    \/ SelectAllButOneInGroups
    \/ DeselectAll

SpecView == InitView /\ [][NextView]_vars

\* C30: after Select All Duplicates the selected set is exactly the set of
\* paths of the files after the first of each group, whatever was selected
\* before, and the path of no first file, the one rendered as KEEP, is in
\* it, for the groups of every file list, lists in which two files carry
\* the same path included.
C30_KeepFirstSelection ==
    lastClick = "selectAll" =>
        /\ selectedFiles = AllButOne(ImageGroups(duplicateGroups))
        /\ selectedFiles \cap Kept(ImageGroups(duplicateGroups)) = {}

====
